---- MODULE Spec2Model ----
(***************************************************************************)
(* Model of the Nicolas Cage Filmography Explorer (sauvegardes/app_V2.py). *)
(*                                                                         *)
(* The script is a Streamlit page: the whole file runs top to bottom on    *)
(* the first page load and again on every widget interaction.  One run is  *)
(* one action of the model.  A Python string is a sequence of one-letter   *)
(* strings, so that substring tests, strip() and split(', ') are computed  *)
(* letter by letter.  A cell of the data frame is either NaN (the empty    *)
(* sequence) or Some(v) (a one-element sequence); Year is kept in tenths   *)
(* (2007.5 is 20075), Rating in tenths (8.5 is 85).                        *)
(***************************************************************************)
EXTENDS Integers, Sequences, FiniteSets, TLC

VARIABLES
    csv,            \* the rows of imdb-movies-dataset.csv, in file order
    cache,          \* st.cache_data entry of load_data(): <<>> or <<frame>>
    ran,            \* whether the script has run at least once in the session
    raised,         \* the exception that ended the last run, or NoError
    movies,         \* the normalized frame of the last run
    yr,             \* value of the "Year range" slider: <<>> or <<lo, hi>>
    selected_motif, \* value of the "Motif" selectbox: <<>> or <<label>>
    filtered,       \* the filtered frame of the last run
    counts,         \* movies per year
    top_genres,     \* top 5 genres
    metrics,        \* the six metric cards, as handed to st.metric
    rating_counts,  \* rating distribution
    duration_chart, \* the Duration column handed to the histogram
    top5,           \* career highlights
    director_df,    \* top 5 directors
    co_stars_df     \* top 5 co-stars

vars == <<csv, cache, ran, raised, movies, yr, selected_motif, filtered,
          counts, top_genres, metrics, rating_counts, duration_chart, top5,
          director_df, co_stars_df>>

-----------------------------------------------------------------------------
(* Cells *)

NaN == <<>>
Some(v) == <<v>>
isna(x) == x = NaN
Val(x) == x[1]

-----------------------------------------------------------------------------
(* Python strings, letter by letter *)

\* the ASCII characters str.strip() removes
Whitespace == {" ", "\t", "\n", "\r", "\f"}

\* sub in s
Contains(s, sub) ==
    \E i \in 1..(Len(s) - Len(sub) + 1) : SubSeq(s, i, i + Len(sub) - 1) = sub

\* s.find(sub) + 1, or 0 when sub does not occur
Find(s, sub) ==
    IF Contains(s, sub)
    THEN CHOOSE i \in 1..(Len(s) - Len(sub) + 1) :
            /\ SubSeq(s, i, i + Len(sub) - 1) = sub
            /\ \A j \in 1..(i - 1) : SubSeq(s, j, j + Len(sub) - 1) # sub
    ELSE 0

\* s.split(sep), sep not empty
RECURSIVE Split(_, _)
Split(s, sep) ==
    LET i == Find(s, sep)
    IN  IF i = 0
        THEN <<s>>
        ELSE <<SubSeq(s, 1, i - 1)>> \o Split(SubSeq(s, i + Len(sep), Len(s)), sep)

RECURSIVE LStrip(_)
LStrip(s) ==
    IF s # <<>> /\ Head(s) \in Whitespace THEN LStrip(Tail(s)) ELSE s

RECURSIVE RStrip(_)
RStrip(s) ==
    IF s # <<>> /\ s[Len(s)] \in Whitespace
    THEN RStrip(SubSeq(s, 1, Len(s) - 1))
    ELSE s

\* s.strip()
Strip(s) == RStrip(LStrip(s))

DigitChar(d) == <<"0", "1", "2", "3", "4", "5", "6", "7", "8", "9">>[d + 1]

\* str(n) for n >= 0
RECURSIVE Digits(_)
Digits(n) ==
    IF n < 10 THEN <<DigitChar(n)>> ELSE Digits(n \div 10) \o <<DigitChar(n % 10)>>

\* num/den rounded to the nearest integer, halves to the even one (den > 0)
RoundHalfEven(num, den) ==
    LET q == num \div den
        r == num % den
    IN  IF 2 * r > den \/ (2 * r = den /\ q % 2 = 1) THEN q + 1 ELSE q

nan == <<"n", "a", "n">>

\* f"{x:.1f}" of the value num/(10*den), given in tenths as num/den
Format1(num, den) ==
    LET t == RoundHalfEven(num, den)
    IN  Digits(t \div 10) \o <<".">> \o <<DigitChar(t % 10)>>

\* f"{x:.0f}" of the value num/den
Format0(num, den) == Digits(RoundHalfEven(num, den))

-----------------------------------------------------------------------------
(* Generic frame helpers; df[mask] is SelectSeq *)

\* concatenation of a sequence of sequences (explode)
RECURSIVE Flatten(_)
Flatten(ss) == IF ss = <<>> THEN <<>> ELSE Head(ss) \o Flatten(Tail(ss))

\* the distinct elements of s in order of first occurrence
RECURSIVE Unique(_)
Unique(s) ==
    IF s = <<>> THEN <<>>
    ELSE LET init == Unique(SubSeq(s, 1, Len(s) - 1))
             x == s[Len(s)]
         IN  IF \E i \in 1..Len(init) : init[i] = x THEN init ELSE Append(init, x)

Occurrences(s, x) == Cardinality({i \in 1..Len(s) : s[i] = x})

\* s sorted by the parallel sequence of keys, largest first, equal keys in
\* their order in s
StableDesc(s, keys) ==
    LET n == Len(s)
        rank(i) == 1 + Cardinality({j \in 1..n :
                        \/ keys[j] > keys[i]
                        \/ keys[j] = keys[i] /\ j < i})
    IN  [p \in 1..n |-> s[CHOOSE i \in 1..n : rank(i) = p]]

\* s sorted by the parallel sequence of keys, smallest first, equal keys in
\* their order in s
StableAsc(s, keys) ==
    LET n == Len(s)
        rank(i) == 1 + Cardinality({j \in 1..n :
                        \/ keys[j] < keys[i]
                        \/ keys[j] = keys[i] /\ j < i})
    IN  [p \in 1..n |-> s[CHOOSE i \in 1..n : rank(i) = p]]

Head_n(s, n) == SubSeq(s, 1, IF Len(s) < n THEN Len(s) ELSE n)

\* the Count column of a value_counts() result
Counts(vc) == [i \in 1..Len(vc) |-> vc[i].Count]

\* Series.value_counts(): (value, count) rows, most frequent first
value_counts(s) ==
    LET u == Unique(s)
        rows == [i \in 1..Len(u) |-> [value |-> u[i], Count |-> Occurrences(s, u[i])]]
    IN  StableDesc(rows, Counts(rows))

\* Series.nlargest(n) of a value_counts() result, keep='first'
nlargest_counts(vc, n) == Head_n(StableDesc(vc, Counts(vc)), n)

-----------------------------------------------------------------------------
(* Literals of the script *)

NicolasCage == <<"N", "i", "c", "o", "l", "a", "s", " ", "C", "a", "g", "e">>

\* the separator of str.split(', ')
Sep == <<",", " ">>

DEFAULT_POSTER_URL ==
    <<"h", "t", "t", "p", "s", ":", "/", "/", "v", "i", "a", ".", "p", "l",
      "a", "c", "e", "h", "o", "l", "d", "e", "r", ".", "c", "o", "m", "/",
      "3", "0", "0", "x", "4", "5", "0", "?", "t", "e", "x", "t", "=", "N",
      "o", "+", "I", "m", "a", "g", "e">>

Action == <<"A", "c", "t", "i", "o", "n">>
Adventure == <<"A", "d", "v", "e", "n", "t", "u", "r", "e">>
Comedy == <<"C", "o", "m", "e", "d", "y">>
Drama == <<"D", "r", "a", "m", "a">>
Thriller == <<"T", "h", "r", "i", "l", "l", "e", "r">>
Crime == <<"C", "r", "i", "m", "e">>
Fantasy == <<"F", "a", "n", "t", "a", "s", "y">>
Family == <<"F", "a", "m", "i", "l", "y">>
Other == <<"O", "t", "h", "e", "r">>
All == <<"A", "l", "l">>

\* the dict, in insertion order (the order .items() iterates in)
MOTIF_MAP ==
    << [key |-> Action, label |-> Action],
       [key |-> Adventure, label |-> Adventure],
       [key |-> Comedy, label |-> Comedy],
       [key |-> Drama, label |-> Drama],
       [key |-> Thriller, label |-> Thriller],
       [key |-> Crime, label |-> Crime],
       [key |-> Fantasy, label |-> Fantasy],
       [key |-> Family, label |-> Family] >>

\* number of rows kept by every nlargest(5, ...) of the script
TopN == 5

-----------------------------------------------------------------------------
(* Exceptions: a call either returns a value or raises *)

NoError == "NoError"
Return(v) == [exc |-> NoError, val |-> v]
Raise(e) == [exc |-> e, val |-> <<>>]

-----------------------------------------------------------------------------
(* Loading and normalization *)

\* pd.read_csv: the rows of the file, labelled 0, 1, 2, ... in file order
read_csv(file) == [i \in 1..Len(file) |-> file[i] @@ [idx |-> i - 1]]

\* df[df['Cast'].str.contains('Nicolas Cage', na=False)]
load_data(file) ==
    SelectSeq(read_csv(file),
         LAMBDA r : ~isna(r.Cast) /\ Contains(Val(r.Cast), NicolasCage))

\* .dropna(subset=['Year'])
dropna_Year(f) == SelectSeq(f, LAMBDA r : ~isna(r.Year))

\* float -> int of a year given in tenths: the fraction is cut off
astype_int(y) == y \div 10

\* movies['Year_int'] = movies['Year'].astype(int)
with_Year_int(f) ==
    [i \in 1..Len(f) |-> f[i] @@ [Year_int |-> astype_int(Val(f[i].Year))]]

\* the poster default without the strip(): a blank poster is kept
default_poster_no_strip(url) ==
    IF isna(url) \/ Val(url) = <<>> THEN Some(DEFAULT_POSTER_URL) ELSE url

\* the lambda of movies['Poster'].apply(...)
default_poster(url) ==
    IF isna(url) \/ Strip(Val(url)) = <<>> THEN Some(DEFAULT_POSTER_URL) ELSE url

with_Poster(f) ==
    [i \in 1..Len(f) |-> [f[i] EXCEPT !.Poster = default_poster(f[i].Poster)]]

\* the label of the first key of MOTIF_MAP, from position k on, found in genres
RECURSIVE first_motif(_, _)
first_motif(genres, k) ==
    IF k > Len(MOTIF_MAP) THEN Other
    ELSE IF Contains(genres, MOTIF_MAP[k].key) THEN MOTIF_MAP[k].label
    ELSE first_motif(genres, k + 1)

\* assign_motif(genres); `key in genres` raises TypeError when genres is NaN,
\* a float
assign_motif(genres) ==
    IF isna(genres) THEN Raise("TypeError") ELSE Return(first_motif(Val(genres), 1))

\* movies['Motif'] = movies['Genre'].apply(assign_motif)
apply_assign_motif(f) ==
    LET res == [i \in 1..Len(f) |-> assign_motif(f[i].Genre)]
    IN  IF \E i \in 1..Len(f) : res[i].exc # NoError
        THEN Raise("TypeError")
        ELSE Return([i \in 1..Len(f) |-> f[i] @@ [Motif |-> res[i].val]])

-----------------------------------------------------------------------------
(* Sidebar *)

\* the elements of a finite set of integers, smallest first
RECURSIVE sorted(_)
sorted(S) ==
    IF S = {} THEN <<>>
    ELSE LET m == CHOOSE x \in S : \A y \in S : x <= y
         IN  <<m>> \o sorted(S \ {m})

\* sorted(movies['Year_int'].unique())
years_of(f) == sorted({f[i].Year_int : i \in 1..Len(f)})

\* Python's min and max of a list: ValueError on an empty one
min(s) == IF s = <<>> THEN Raise("ValueError") ELSE Return(s[1])
max(s) == IF s = <<>> THEN Raise("ValueError") ELSE Return(s[Len(s)])

\* the nine possible labels in the order sorted() gives them
SortedLabels ==
    <<Action, Adventure, Comedy, Crime, Drama, Family, Fantasy, Other, Thriller>>

\* ['All'] + sorted(movies['Motif'].unique().tolist())
top_motifs_of(f) ==
    <<All>> \o SelectSeq(SortedLabels,
                         LAMBDA l : \E i \in 1..Len(f) : f[i].Motif = l)

\* st.sidebar.slider: the (min, max) default on the first run, the value the
\* user left it at afterwards
slider(widget, lo, hi) == IF isna(widget) THEN <<lo, hi>> ELSE widget

\* st.sidebar.selectbox: the first option on the first run
selectbox(widget, options) == IF isna(widget) THEN options[1] ELSE Val(widget)

-----------------------------------------------------------------------------
(* Interactive filter *)

\* the year mask with the lower bound exclusive
year_mask_exclusive_min(f, range) ==
    SelectSeq(f, LAMBDA r : r.Year_int > range[1] /\ r.Year_int <= range[2])

\* the year mask with the upper bound exclusive
year_mask_exclusive_max(f, range) ==
    SelectSeq(f, LAMBDA r : r.Year_int >= range[1] /\ r.Year_int < range[2])

\* the year mask followed by a positional slice that is off by one
year_mask_skip_first(f, range) ==
    LET kept == SelectSeq(f, LAMBDA r : r.Year_int >= range[1]
                                          /\ r.Year_int <= range[2])
    IN  IF kept = <<>> THEN kept ELSE Tail(kept)

year_mask(f, range) ==
    SelectSeq(f, LAMBDA r : r.Year_int >= range[1] /\ r.Year_int <= range[2])

motif_mask(f, motif) == SelectSeq(f, LAMBDA r : r.Motif = motif)

\* lines 59-63
apply_filters(f, range, motif) ==
    IF motif # All THEN motif_mask(year_mask(f, range), motif)
    ELSE year_mask(f, range)

-----------------------------------------------------------------------------
(* Aggregators *)

\* filtered.groupby('Year_int').size().reset_index(name='Count'), plus the
\* Year column of line 69
counts_of(f) ==
    LET ys == years_of(f)
    IN  [i \in 1..Len(ys) |->
            [Year_int |-> ys[i],
             Count |-> Cardinality({j \in 1..Len(f) : f[j].Year_int = ys[i]}),
             Year |-> ys[i]]]

\* col.str.split(', ').explode(); a NaN cell stays NaN and is dropped by
\* value_counts()
split_explode(col) ==
    Flatten([i \in 1..Len(col) |->
                IF isna(col[i]) THEN <<>> ELSE Split(Val(col[i]), Sep)])

\* lines 85-87
top_genres_of(f) ==
    LET genres == split_explode([i \in 1..Len(f) |-> f[i].Genre])
        top == nlargest_counts(value_counts(genres), TopN)
    IN  [i \in 1..Len(top) |-> [Genre |-> top[i].value, Count |-> top[i].Count]]

RECURSIVE Sum(_)
Sum(s) == IF s = <<>> THEN 0 ELSE Head(s) + Sum(Tail(s))

\* Series.mean(), .min(), .max(): NaN on an empty column, else the exact
\* value as a fraction
mean(col) ==
    IF col = <<>> THEN NaN ELSE Some([num |-> Sum(col), den |-> Len(col)])

smin(col) ==
    IF col = <<>> THEN NaN
    ELSE Some([num |-> CHOOSE x \in {col[i] : i \in 1..Len(col)} :
                          \A j \in 1..Len(col) : x <= col[j],
               den |-> 1])

smax(col) ==
    IF col = <<>> THEN NaN
    ELSE Some([num |-> CHOOSE x \in {col[i] : i \in 1..Len(col)} :
                          \A j \in 1..Len(col) : x >= col[j],
               den |-> 1])

\* f"{x:.1f}" of a rating statistic (in tenths); a NaN formats as "nan"
fmt_1f(x) == IF isna(x) THEN nan ELSE Format1(Val(x).num, Val(x).den)

\* f"{x:.0f} min" of a duration statistic
fmt_0f_min(x) ==
    (IF isna(x) THEN nan ELSE Format0(Val(x).num, Val(x).den))
        \o <<" ", "m", "i", "n">>

\* lines 104-117: the six st.metric cards
metrics_of(f) ==
    LET rating == [i \in 1..Len(f) |-> f[i].Rating]
        duration == [i \in 1..Len(f) |-> f[i].Duration]
    IN  << [label |-> "Avg Rating", value |-> fmt_1f(mean(rating))],
           [label |-> "Min Rating", value |-> fmt_1f(smin(rating))],
           [label |-> "Max Rating", value |-> fmt_1f(smax(rating))],
           [label |-> "Avg Duration", value |-> fmt_0f_min(mean(duration))],
           [label |-> "Min Duration", value |-> fmt_0f_min(smin(duration))],
           [label |-> "Max Duration", value |-> fmt_0f_min(smax(duration))] >>

\* filtered['Rating'].value_counts().sort_index().reset_index()
rating_counts_of(f) ==
    LET vc == value_counts([i \in 1..Len(f) |-> f[i].Rating])
        sorted_vc == StableAsc(vc, [i \in 1..Len(vc) |-> vc[i].value])
    IN  [i \in 1..Len(vc) |->
            [Rating |-> sorted_vc[i].value, Count |-> sorted_vc[i].Count]]

\* the data of alt.Chart(filtered) that the histogram encodes
duration_chart_of(f) == [i \in 1..Len(f) |-> f[i].Duration]

\* head(n) in place of nlargest(n, 'Rating'): the first n rows, unsorted
head_Rating(f, n) == Head_n(f, n)

\* DataFrame.nlargest(n, 'Rating'), keep='first'
nlargest_Rating(f, n) ==
    Head_n(StableDesc(f, [i \in 1..Len(f) |-> f[i].Rating]), n)

\* lines 151-153
top5_of(f) ==
    LET top == nlargest_Rating(f, TopN)
    IN  [i \in 1..Len(top) |->
            [idx |-> top[i].idx,
             Title |-> top[i].Title,
             Year_int |-> top[i].Year_int,
             Rating |-> Format1(top[i].Rating, 1),
             Poster |-> top[i].Poster,
             Genre |-> top[i].Genre,
             Year |-> Digits(top[i].Year_int)]]

\* lines 165-166; value_counts() drops the NaN directors
director_df_of(f) ==
    LET named == SelectSeq(f, LAMBDA r : ~isna(r.Director))
        top == nlargest_counts(
                   value_counts([i \in 1..Len(named) |-> Val(named[i].Director)]), TopN)
    IN  [i \in 1..Len(top) |->
            [Director |-> top[i].value, Count |-> top[i].Count]]

\* the exploded cast with the subject left in
subject_kept(tokens) == tokens

\* .loc[lambda s: s != 'Nicolas Cage']
not_subject(tokens) == SelectSeq(tokens, LAMBDA t : t # NicolasCage)

\* lines 167-171
co_stars_df_of(f) ==
    LET names == not_subject(split_explode([i \in 1..Len(f) |-> f[i].Cast]))
        top == nlargest_counts(value_counts(names), TopN)
    IN  [i \in 1..Len(top) |-> [Actor |-> top[i].value, Count |-> top[i].Count]]

-----------------------------------------------------------------------------
(* One run of the script *)

\* a run ended by exception e: the names assigned so far keep their values,
\* the tables after the raising line are never assigned (empty here)
Aborted(e, m, yrW, motifW) ==
    [raised |-> e, movies |-> m, yr |-> yrW, selected_motif |-> motifW,
     filtered |-> <<>>, counts |-> <<>>, top_genres |-> <<>>, metrics |-> <<>>,
     rating_counts |-> <<>>, duration_chart |-> <<>>, top5 |-> <<>>,
     director_df |-> <<>>, co_stars_df |-> <<>>]

\* the page computed by narrowing the frame the previous run had filtered
Page_retained(m, range, motif) ==
    LET f == apply_filters(IF ran THEN filtered ELSE m, range, motif)
    IN  [raised |-> NoError, movies |-> m, yr |-> range,
         selected_motif |-> Some(motif),
         filtered |-> f,
         counts |-> counts_of(f),
         top_genres |-> top_genres_of(f),
         metrics |-> metrics_of(f),
         rating_counts |-> rating_counts_of(f),
         duration_chart |-> duration_chart_of(f),
         top5 |-> top5_of(f),
         director_df |-> director_df_of(f),
         co_stars_df |-> co_stars_df_of(f)]

\* lines 59-171 for the normalized frame m and the widget values
Page(m, range, motif) ==
    LET f == apply_filters(m, range, motif)
    IN  [raised |-> NoError, movies |-> m, yr |-> range,
         selected_motif |-> Some(motif),
         filtered |-> f,
         counts |-> counts_of(f),
         top_genres |-> top_genres_of(f),
         metrics |-> metrics_of(f),
         rating_counts |-> rating_counts_of(f),
         duration_chart |-> duration_chart_of(f),
         top5 |-> top5_of(f),
         director_df |-> director_df_of(f),
         co_stars_df |-> co_stars_df_of(f)]

\* the script from line 13 on: frame is what load_data() returned, yrW and
\* motifW the values the session holds for the two widgets (NaN: none yet)
Script(frame, yrW, motifW) ==
    LET m2 == with_Poster(with_Year_int(dropna_Year(frame)))
        am == apply_assign_motif(m2)
    IN  IF am.exc # NoError THEN Aborted(am.exc, m2, yrW, motifW)
        ELSE LET years == years_of(am.val)
                 lo == min(years)
                 hi == max(years)
             IN  IF lo.exc # NoError THEN Aborted(lo.exc, am.val, yrW, motifW)
                 ELSE Page(am.val,
                           slider(yrW, lo.val, hi.val),
                           selectbox(motifW, top_motifs_of(am.val)))

-----------------------------------------------------------------------------
(* The input file: rows of imdb-movies-dataset.csv the runs are checked on *)

JohnTravolta ==
    <<"J", "o", "h", "n", " ", "T", "r", "a", "v", "o", "l", "t", "a">>
SarahJessicaParker ==
    <<"S", "a", "r", "a", "h", " ", "J", "e", "s", "s", "i", "c", "a", " ",
      "P", "a", "r", "k", "e", "r">>
SeanConnery ==
    <<"S", "e", "a", "n", " ", "C", "o", "n", "n", "e", "r", "y">>
EdHarris ==
    <<"E", "d", " ", "H", "a", "r", "r", "i", "s">>
MegRyan ==
    <<"M", "e", "g", " ", "R", "y", "a", "n">>
JohnCusack ==
    <<"J", "o", "h", "n", " ", "C", "u", "s", "a", "c", "k">>

\* a cast cell written without the blank after one comma
RonPerlmanNicolasCage ==
    <<"R", "o", "n", " ", "P", "e", "r", "l", "m", "a", "n", ",">> \o NicolasCage

Horror == <<"H", "o", "r", "r", "o", "r">>
PosterUrl == <<"h", "t", "t", "p", ":", "/", "/", "p", "/", "1", ".", "j", "p", "g">>

\* names joined by ', '
RECURSIVE Joined(_)
Joined(ns) ==
    IF Len(ns) = 1 THEN ns[1] ELSE ns[1] \o Sep \o Joined(Tail(ns))

Row(title, year, genre, rating, duration, director, cast, poster) ==
    [Title |-> title, Year |-> year, Genre |-> genre, Rating |-> rating,
     Duration |-> duration, Director |-> director, Cast |-> cast,
     Poster |-> poster]

\* rows with every shape of cell the normalizer and the subject filter
\* distinguish
Rows ==
    { Row("Face/Off", Some(20070), Some(Joined(<<Action, Thriller>>)), 85, 138,
          Some("John Woo"), Some(Joined(<<NicolasCage, JohnTravolta>>)),
          Some(PosterUrl)),
      Row("Honeymoon in Vegas", Some(20070), Some(Comedy), 60, 96,
          Some("Andrew Bergman"),
          Some(Joined(<<NicolasCage, SarahJessicaParker>>)), NaN),
      Row("Windtalkers", Some(20055), Some(Joined(<<Drama, Action>>)), 85, 134,
          Some("John Woo"), Some(Joined(<<JohnTravolta, NicolasCage>>)),
          Some(<<" ", " ", "\t">>)),
      Row("Untitled", NaN, NaN, 50, 90, NaN,
          Some(Joined(<<NicolasCage, MegRyan>>)), NaN),
      Row("City of Angels", Some(20060), NaN, 67, 114, Some("Brad Silberling"),
          Some(Joined(<<NicolasCage, MegRyan>>)), Some(PosterUrl)),
      Row("Swordfish", Some(20060), Some(Horror), 65, 99, Some("Dominic Sena"),
          Some(JohnTravolta), Some(PosterUrl)),
      Row("Unknown Cast", Some(20060), Some(Drama), 70, 100, NaN, NaN,
          Some(PosterUrl)),
      Row("Joe", Some(20060), Some(Joined(<<Crime, Drama>>)), 71, 117, NaN,
          Some(NicolasCage), Some(<<>>)) }

\* rows of one year, for the top-5 tables: two of them tie on Rating, and
\* together they name seven co-stars
TopRows ==
    { Row("The Rock", Some(20070), Some(Joined(<<Action, Thriller>>)), 85, 136,
          Some("Michael Bay"),
          Some(Joined(<<NicolasCage, JohnTravolta, SeanConnery, EdHarris>>)),
          Some(PosterUrl)),
      Row("Con Air", Some(20070), Some(Comedy), 60, 115, Some("Simon West"),
          Some(Joined(<<MegRyan, NicolasCage, JohnCusack, SarahJessicaParker>>)),
          Some(PosterUrl)),
      Row("Season of the Witch", Some(20070), Some(Horror), 85, 95,
          Some("Dominic Sena"),
          Some(Joined(<<RonPerlmanNicolasCage, NicolasCage, JohnTravolta>>)),
          NaN) }

\* most rows of a file drawn from Rows
MaxRows == 3

\* most rows of a file drawn from TopRows
MaxTopRows == 6

SeqUpTo(S, n) == UNION {[1..k -> S] : k \in 0..n}

Files == SeqUpTo(Rows, MaxRows) \cup SeqUpTo(TopRows, MaxTopRows)

-----------------------------------------------------------------------------
(* The session *)

Init ==
    /\ csv \in Files
    /\ cache = NaN
    /\ ran = FALSE
    /\ raised = NoError
    /\ movies = <<>>
    /\ yr = NaN
    /\ selected_motif = NaN
    /\ filtered = <<>>
    /\ counts = <<>>
    /\ top_genres = <<>>
    /\ metrics = <<>>
    /\ rating_counts = <<>>
    /\ duration_chart = <<>>
    /\ top5 = <<>>
    /\ director_df = <<>>
    /\ co_stars_df = <<>>

\* the state a run leaves behind
Assign(out) ==
    /\ raised' = out.raised
    /\ movies' = out.movies
    /\ yr' = out.yr
    /\ selected_motif' = out.selected_motif
    /\ filtered' = out.filtered
    /\ counts' = out.counts
    /\ top_genres' = out.top_genres
    /\ metrics' = out.metrics
    /\ rating_counts' = out.rating_counts
    /\ duration_chart' = out.duration_chart
    /\ top5' = out.top5
    /\ director_df' = out.director_df
    /\ co_stars_df' = out.co_stars_df

\* the page is opened: load_data() runs and is cached, the widgets take their
\* defaults
FirstRun ==
    /\ ~ran
    /\ ran' = TRUE
    /\ cache' = Some(load_data(csv))
    /\ Assign(Script(load_data(csv), NaN, NaN))
    /\ UNCHANGED csv

\* the user moves the year slider (drawn only by a run that did not raise)
\* and the script runs again, load_data() served from the cache
ChangeYearRange ==
    /\ ran
    /\ raised = NoError
    /\ \E lo \in years_of(movies)[1]..years_of(movies)[Len(years_of(movies))] :
         \E hi \in lo..years_of(movies)[Len(years_of(movies))] :
            /\ <<lo, hi>> # yr
            /\ Assign(Script(Val(cache), <<lo, hi>>, selected_motif))
    /\ UNCHANGED <<csv, cache, ran>>

\* the user picks another motif and the script runs again
ChangeMotif ==
    /\ ran
    /\ raised = NoError
    /\ \E k \in 1..Len(top_motifs_of(movies)) :
            /\ Some(top_motifs_of(movies)[k]) # selected_motif
            /\ Assign(Script(Val(cache), yr, Some(top_motifs_of(movies)[k])))
    /\ UNCHANGED <<csv, cache, ran>>

\* the user reloads the page within the session: same widget values
Rerun ==
    /\ ran
    /\ Assign(Script(Val(cache), yr, selected_motif))
    /\ UNCHANGED <<csv, cache, ran>>

Next == FirstRun \/ ChangeYearRange \/ ChangeMotif \/ Rerun

Spec == Init /\ [][Next]_vars

-----------------------------------------------------------------------------
(* Properties *)

\* the last run reached the end of the script
Completed == ran /\ raised = NoError

RowSet(f) == {f[i] : i \in 1..Len(f)}
IdxSet(f) == {f[i].idx : i \in 1..Len(f)}

\* the rows of the file that name the subject and carry a Year
Survivors ==
    {j \in 1..Len(csv) :
        /\ ~isna(csv[j].Cast)
        /\ Contains(Val(csv[j].Cast), NicolasCage)
        /\ ~isna(csv[j].Year)}

\* C1: after a run, every row of the normalized frame comes from a row of the
\* file that has a Year, its Year_int is that Year with the fraction cut
\* off, and its Poster is neither missing nor blank once stripped; no row
\* of the file with a missing Year is in the frame.
C1_NormalizedRows ==
    ran =>
        /\ IdxSet(movies) = {j - 1 : j \in Survivors}
        /\ \A i \in 1..Len(movies) :
            /\ ~isna(movies[i].Year)
            /\ movies[i].Year_int \in Int
            /\ movies[i].Year_int * 10 <= Val(movies[i].Year)
            /\ Val(movies[i].Year) < (movies[i].Year_int + 1) * 10
            /\ ~isna(movies[i].Poster)
            /\ Strip(Val(movies[i].Poster)) # <<>>

\* a run over a file with a subject row lacking a Year, a kept row whose
\* Year has a fraction, and kept rows whose Poster was missing and blank
C1_Witness ==
    /\ Completed
    /\ \E j \in 1..Len(csv) :
            /\ isna(csv[j].Year)
            /\ ~isna(csv[j].Cast)
            /\ Contains(Val(csv[j].Cast), NicolasCage)
    /\ \E i \in 1..Len(movies) : Val(movies[i].Year) % 10 # 0
    /\ \E i \in 1..Len(movies) :
            /\ isna(csv[movies[i].idx + 1].Poster)
            /\ movies[i].Poster = Some(DEFAULT_POSTER_URL)
    /\ \E i \in 1..Len(movies) :
            /\ ~isna(csv[movies[i].idx + 1].Poster)
            /\ Val(csv[movies[i].idx + 1].Poster) # <<>>
            /\ movies[i].Poster = Some(DEFAULT_POSTER_URL)

\* the label the fixed list gives a genre string
ListLabel(g) ==
    LET hits == {k \in 1..Len(MOTIF_MAP) : Contains(g, MOTIF_MAP[k].key)}
    IN  IF hits = {} THEN Other
        ELSE MOTIF_MAP[CHOOSE k \in hits : \A h \in hits : k <= h].label

\* C2: whatever the Genre cells hold, a missing Genre included, the run
\* assigns every normalized row its Motif without failing: the first label
\* of the fixed list that occurs in Genre, "Other" when none does (or when
\* Genre is missing).
C2_MotifAlwaysAssigned ==
    ran =>
        /\ raised # "TypeError"
        /\ \A i \in 1..Len(movies) :
                movies[i].Motif =
                    IF isna(movies[i].Genre) THEN Other
                    ELSE ListLabel(Val(movies[i].Genre))

\* the rows of the normalized frame a selection asks for
Wanted(range, motif) ==
    {r \in RowSet(movies) :
        /\ range[1] <= r.Year_int
        /\ r.Year_int <= range[2]
        /\ (motif # All => r.Motif = motif)}

\* the selections the filter is tried on: every range within one year of the
\* years of the frame, every label and "All"
Ranges ==
    IF movies = <<>> THEN {<<2006, 2007>>}
    ELSE LET ys == years_of(movies)
         IN  {<<lo, hi>> : lo \in (ys[1] - 1)..(ys[Len(ys)] + 1),
                           hi \in (ys[1] - 1)..(ys[Len(ys)] + 1)}

Motifs == {All} \cup {SortedLabels[k] : k \in 1..Len(SortedLabels)}

\* C3: for the normalized frame of any file and any selection, the filter
\* returns exactly the rows with range.min <= Year_int <= range.max and, unless
\* the motif is "All", Motif equal to the motif, each once and in the order
\* of the frame; the filtered frame of a completed run is that of its sliders.
C3_FilterExact ==
    (ran /\ raised # "TypeError") =>
        /\ \A range \in Ranges : \A motif \in Motifs :
            LET f == apply_filters(movies, range, motif)
            IN  /\ RowSet(f) = Wanted(range, motif)
                /\ Len(f) = Cardinality(Wanted(range, motif))
                /\ \A i, j \in 1..Len(f) : i < j => f[i].idx < f[j].idx
        /\ Completed =>
            /\ RowSet(filtered) = Wanted(yr, Val(selected_motif))
            /\ Len(filtered) = Cardinality(RowSet(filtered))

\* a completed run with one year and one motif selected that keeps some rows,
\* among them one of the selected year, and drops others
C3_Witness ==
    /\ Completed
    /\ Val(selected_motif) # All
    /\ yr[1] = yr[2]
    /\ filtered # <<>>
    /\ \E r \in RowSet(movies) \ RowSet(filtered) : r.Motif = Val(selected_motif)
    /\ \E r \in RowSet(movies) \ RowSet(filtered) : r.Year_int = yr[1]

\* C4: filtering the filtered frame of a completed run again by the same
\* selection returns the same frame.
C4_FilterIdempotent ==
    Completed => apply_filters(filtered, yr, Val(selected_motif)) = filtered

\* a completed run whose filter kept some rows and dropped others
C4_Witness ==
    /\ Completed
    /\ filtered # <<>>
    /\ Len(filtered) < Len(movies)
    /\ Val(selected_motif) # All

\* C5: with the slider on the smallest and largest Year_int of the normalized
\* frame and the motif "All", the filtered frame has the same rows as the
\* normalized frame.
C5_FullRangeAll ==
    (/\ Completed
     /\ yr = <<years_of(movies)[1], years_of(movies)[Len(years_of(movies))]>>
     /\ selected_motif = Some(All)) =>
        /\ RowSet(filtered) = RowSet(movies)
        /\ Len(filtered) = Len(movies)

\* such a run over a frame of several years and several motifs
C5_Witness ==
    /\ Completed
    /\ yr = <<years_of(movies)[1], years_of(movies)[Len(years_of(movies))]>>
    /\ selected_motif = Some(All)
    /\ Len(years_of(movies)) > 1
    /\ Len(top_motifs_of(movies)) > 2
    /\ Len(filtered) > 2

\* every name in the Cast cells of the filtered frame, with repetitions
CastTokens ==
    Flatten([i \in 1..Len(filtered) |-> Split(Val(filtered[i].Cast), Sep)])

Least(a, b) == IF a < b THEN a ELSE b

\* C6: the co-stars table of a completed run never names the subject: its
\* rows are distinct names of the split Cast cells other than the subject's,
\* each with the number of times it occurs, min(5, number of such names) of
\* them, and no name left out occurs more often than a name in the table.
C6_CoStarsExcludeSubject ==
    Completed =>
        LET tokens == CastTokens
            names == {tokens[k] : k \in 1..Len(tokens)} \ {NicolasCage}
            times == [n \in names |-> Occurrences(tokens, n)]
            listed == {co_stars_df[i].Actor : i \in 1..Len(co_stars_df)}
        IN  /\ NicolasCage \notin listed
            /\ listed \subseteq names
            /\ Cardinality(listed) = Len(co_stars_df)
            /\ Len(co_stars_df) = Least(TopN, Cardinality(names))
            /\ \A i \in 1..Len(co_stars_df) :
                /\ co_stars_df[i].Count = times[co_stars_df[i].Actor]
                /\ \A n \in names \ listed : times[n] <= co_stars_df[i].Count

\* a completed run whose casts name the subject several times and more than
\* five other names, one of which contains the subject's name
C6_Witness ==
    /\ Completed
    /\ Occurrences(CastTokens, NicolasCage) > 1
    /\ Cardinality({CastTokens[k] : k \in 1..Len(CastTokens)} \ {NicolasCage})
            > TopN
    /\ Len(co_stars_df) = TopN
    /\ \E i \in 1..Len(co_stars_df) : Contains(co_stars_df[i].Actor, NicolasCage)

\* C7: when no row is left after the subject filter, or the filtered frame
\* of a completed run is empty, the run ends without raising and the yearly
\* counts, genre top 5, rating distribution, duration data, top 5 by rating,
\* top directors and top co-stars are all empty.
C7_EmptyInputCompletes ==
    (ran /\ (Val(cache) = <<>> \/ (Completed /\ filtered = <<>>))) =>
        /\ raised = NoError
        /\ counts = <<>>
        /\ top_genres = <<>>
        /\ rating_counts = <<>>
        /\ duration_chart = <<>>
        /\ top5 = <<>>
        /\ director_df = <<>>
        /\ co_stars_df = <<>>

\* C8: when the filtered frame of a completed run is empty, no metric card
\* carries a formatted NaN: the six statistics are shown as undefined.
C8_EmptyStatsFlagged ==
    (Completed /\ filtered = <<>>) =>
        \A i \in 1..Len(metrics) : ~Contains(metrics[i].value, nan)

\* the row of the filtered frame a top-5 entry was taken from
Source(t) == CHOOSE r \in RowSet(filtered) : r.idx = t.idx

\* C9: the career highlights of a completed run are min(5, n) distinct rows
\* of the n filtered rows; no row left out has a higher Rating than a row
\* kept; of two rows of equal Rating the one earlier in the file is kept if
\* the later one is, and listed before it; each entry carries the row's
\* Title, Year_int, Poster and Genre and its Rating to one decimal.
C9_Top5ByRating ==
    Completed =>
        /\ Len(top5) = Least(TopN, Len(filtered))
        /\ \A i \in 1..Len(top5) : top5[i].idx \in IdxSet(filtered)
        /\ \A i, j \in 1..Len(top5) : i # j => top5[i].idx # top5[j].idx
        /\ \A i \in 1..Len(top5) : \A r \in RowSet(filtered) :
                r.idx \notin IdxSet(top5) => r.Rating <= Source(top5[i]).Rating
        /\ \A j \in 1..Len(top5) : \A r \in RowSet(filtered) :
                (r.Rating = Source(top5[j]).Rating /\ r.idx < top5[j].idx)
                    => \E i \in 1..(j - 1) : top5[i].idx = r.idx
        /\ \A i \in 1..Len(top5) :
            /\ top5[i].Title = Source(top5[i]).Title
            /\ top5[i].Year_int = Source(top5[i]).Year_int
            /\ top5[i].Poster = Source(top5[i]).Poster
            /\ top5[i].Genre = Source(top5[i]).Genre
            /\ top5[i].Rating =
                    Digits(Source(top5[i]).Rating \div 10) \o <<".">>
                        \o Digits(Source(top5[i]).Rating % 10)

\* a completed run with more than five filtered rows where a row left out
\* ties with a row kept and a row kept comes later in the file than a row
\* of lower Rating
C9_Witness ==
    /\ Completed
    /\ Len(filtered) > TopN
    /\ \E r \in RowSet(filtered) : \E i \in 1..Len(top5) :
            /\ r.idx \notin IdxSet(top5)
            /\ r.Rating = Source(top5[i]).Rating
    /\ \E r \in RowSet(filtered) : \E i \in 1..Len(top5) :
            /\ r.idx < top5[i].idx
            /\ r.Rating < Source(top5[i]).Rating

\* the normalized frame of the file, when every Genre is present
Normalized ==
    LET m == with_Poster(with_Year_int(dropna_Year(load_data(csv))))
    IN  [i \in 1..Len(m) |-> m[i] @@ [Motif |-> ListLabel(Val(m[i].Genre))]]

\* C10: after any sequence of selections, the normalized frame of a completed
\* run is that of the file, and the filtered frame and every table are the
\* ones computed from the normalized frame and the current selection alone.
C10_RecomputedFromScratch ==
    Completed =>
        LET f == apply_filters(Normalized, yr, Val(selected_motif))
        IN  /\ movies = Normalized
            /\ cache = Some(load_data(csv))
            /\ filtered = f
            /\ counts = counts_of(f)
            /\ top_genres = top_genres_of(f)
            /\ metrics = metrics_of(f)
            /\ rating_counts = rating_counts_of(f)
            /\ duration_chart = duration_chart_of(f)
            /\ top5 = top5_of(f)
            /\ director_df = director_df_of(f)
            /\ co_stars_df = co_stars_df_of(f)

\* a completed run after both widgets were moved off their defaults, one
\* interaction each: the range is narrower than the slider's and drops a row
\* of the selected motif, and the motif drops a row of the selected years
C10_Witness ==
    /\ Completed
    /\ Val(selected_motif) # All
    /\ yr # <<years_of(movies)[1], years_of(movies)[Len(years_of(movies))]>>
    /\ filtered # <<>>
    /\ \E r \in RowSet(movies) :
            /\ r.Motif = Val(selected_motif)
            /\ (r.Year_int < yr[1] \/ r.Year_int > yr[2])
    /\ \E r \in RowSet(movies) :
            /\ r.Motif # Val(selected_motif)
            /\ yr[1] <= r.Year_int
            /\ r.Year_int <= yr[2]

====
